---- MODULE Spec2Model ----
(***************************************************************************)
(* Model of compute/oslogin/oslogin-security-keys.py: main() looks up the  *)
(* login profile of a user, write_ssh_key_files() stores every security    *)
(* key's private key in <directory>/google_sk_<index> with mode 0600, and  *)
(* ssh_command() prints the ssh command line that uses the key files.      *)
(*                                                                         *)
(* Python values: a dict is a function on its keys, a list is a sequence,  *)
(* a str is a string, and an optional value (x or None) is <<x>> or <<>>.  *)
(* The filesystem is the set of directories fs_dirs and the function fs    *)
(* from the normalised path of every regular file to its content and mode. *)
(***************************************************************************)
EXTENDS Integers, Sequences, FiniteSets, TLC

\* ------------------------------------------------------------------ bounds
MaxKeys == 2
MaxRuns == 2
MaxPaths == 2

\* --------------------------------------------------------------- constants
\* os.chmod(key_file, 0o600)
KeyFileMode == 384
\* open(key_file, 'w') creates a missing file with mode 0o666 & ~umask
OpenCreateMode == 438

VARIABLES
    directory_arg,   \* --directory ("" when the option is not given)
    ip_address,      \* --ip_address
    umask,           \* file mode creation mask of the process
    fs_dirs,         \* filesystem: the directories that exist
    fs,              \* filesystem: normalised path -> [content, mode]
    run,             \* number of the current invocation of main
    pc,              \* position of the current invocation
    directory,       \* main: directory
    profile,         \* main: profile, <<>> before the lookup returned
    security_keys,   \* main: security_keys, an optional list
    username,        \* main: username, an optional string
    key_files,       \* write_ssh_key_files: key_files
    index,           \* write_ssh_key_files: index of the current entry (0-based)
    buf,             \* the open file object f: <<>> closed, else <<pending text>>
    stdout,          \* the lines printed by the current invocation
    error,           \* the exception that ended the current invocation, or "none"
    lookups,         \* getLoginProfile requests issued by the current invocation
    env_fault,       \* whether the environment failed a call of this invocation
    fs0,             \* fs when the current invocation started
    prev_keys        \* the entries the previous invocation wrote, None if it failed or there was none

vars == <<directory_arg, ip_address, umask, fs_dirs, fs, run, pc, directory,
          profile, security_keys, username, key_files, index, buf, stdout,
          error, lookups, env_fault, fs0, prev_keys>>

inputs == <<directory_arg, ip_address, umask>>
locals == <<directory, profile, security_keys, username, key_files, index, buf>>

\* ------------------------------------------------------------ Python values
None == <<>>
Some(x) == <<x>>
IsNone(o) == o = <<>>
Value(o) == o[1]

\* dict.get(key): the value, or None
DictGet(d, k) == IF k \in DOMAIN d THEN Some(d[k]) ELSE None

\* str.startswith / str.endswith for a one-character argument
StartsWith(s, c) == Len(s) > 0 /\ SubSeq(s, 1, 1) = c
EndsWith(s, c) == Len(s) > 0 /\ SubSeq(s, Len(s), Len(s)) = c

\* str.join
RECURSIVE StrJoin(_, _)
StrJoin(sep, items) ==
    IF Len(items) = 0 THEN ""
    ELSE IF Len(items) = 1 THEN items[1]
    ELSE items[1] \o sep \o StrJoin(sep, Tail(items))

\* faulty variant: the index starts at 1
KeyFileName_OneBased(i) == "google_sk_" \o ToString(i + 1)

\* 'google_sk_%s' % index
KeyFileName(i) == "google_sk_" \o ToString(i)

\* os.path.join(a, b) of posixpath
PathJoin(a, b) ==
    IF StartsWith(b, "/") THEN b
    ELSE IF a = "" \/ EndsWith(a, "/") THEN a \o b
    ELSE a \o "/" \o b

\* os.path.expanduser('~'): the home directory of the environment
ExpandUser == "/home/u"

\* ------------------------------------------------------------- filesystem
\* Pathname resolution: repeated slashes count as one, a trailing slash is dropped.
RECURSIVE Collapse(_)
Collapse(s) ==
    IF Len(s) <= 1 THEN s
    ELSE IF Head(s) = "/" /\ Head(Tail(s)) = "/" THEN Collapse(Tail(s))
    ELSE Head(s) \o Collapse(Tail(s))

Normalize(p) ==
    LET c == Collapse(p)
    IN IF Len(c) > 1 /\ EndsWith(c, "/") THEN SubSeq(c, 1, Len(c) - 1) ELSE c

RECURSIVE LastSlash(_, _)
LastSlash(s, i) ==
    IF i = 0 THEN 0
    ELSE IF SubSeq(s, i, i) = "/" THEN i
    ELSE LastSlash(s, i - 1)

\* the directory a normalised path lies in
ParentDir(p) ==
    LET k == LastSlash(p, Len(p))
    IN IF k = 0 THEN "." ELSE IF k = 1 THEN "/" ELSE SubSeq(p, 1, k - 1)

\* a & ~b on mode bits
RECURSIVE BitClear(_, _)
BitClear(a, b) ==
    IF a = 0 THEN 0
    ELSE 2 * BitClear(a \div 2, b \div 2) + (IF a % 2 = 1 /\ b % 2 = 0 THEN 1 ELSE 0)

File(content, mode) == [content |-> content, mode |-> mode]

\* faulty variant: open(path, 'a'), an existing file is not truncated
OpenForWriting_Append(files, path, mask) ==
    LET p == Normalize(path)
    IN [q \in DOMAIN files \cup {p} |->
          IF q \in DOMAIN files THEN files[q]
          ELSE File("", BitClear(OpenCreateMode, mask))]

\* open(path, 'w') on the filesystem: O_WRONLY | O_CREAT | O_TRUNC.  A missing
\* file is created empty with mode 0o666 & ~umask; an existing file is
\* truncated and keeps its mode.
OpenForWriting(files, path, mask) ==
    LET p == Normalize(path)
    IN [q \in DOMAIN files \cup {p} |->
          IF q = p
          THEN File("", IF p \in DOMAIN files THEN files[p].mode
                        ELSE BitClear(OpenCreateMode, mask))
          ELSE files[q]]

\* faulty variant: missing directories are created before the file is opened
CanOpen_MakeDirs(dirs, path) == TRUE

\* whether open(path, 'w') finds the directory of the file
CanOpen(dirs, path) == ParentDir(Normalize(path)) \in dirs

\* flushing the text buffered in the file object to the file
Flush(files, path, text) ==
    LET p == Normalize(path)
    IN [files EXCEPT ![p] = File(files[p].content \o text, files[p].mode)]

\* os.chmod(path, mode)
Chmod(files, path, mode) ==
    LET p == Normalize(path)
    IN [files EXCEPT ![p] = File(files[p].content, mode)]

\* ------------------------------------------------------------------ inputs
DirectoryArgs == {"", "/tmp/", "/nodir"}
IpAddresses == {"1.2.3.4", "5.6.7.8"}
\* the usual file mode creation mask, 0o022
Umasks == {18}
ExistingDirs == {"/home/u/.ssh", "/tmp", "/"}

\* the security key entries a profile can list; the last has no privateKey
Entries == {[privateKey |-> "KEY-A"], [privateKey |-> "KEY-B"], [publicKey |-> "PUB-C"]}

SeqsUpTo(S, n) == UNION {[1..k -> S] : k \in 0..n}

PosixAccountLists ==
    { <<>>,
      <<[username |-> "alice"]>>,
      <<[username |-> "bob"], [username |-> "alice"]>> }

\* the responses of getLoginProfile: securityKeys is left out or a list
Profiles ==
    { [securityKeys |-> <<>>] }
    \cup { [posixAccounts |-> a] : a \in PosixAccountLists }
    \cup { [posixAccounts |-> a, securityKeys |-> k] :
             a \in PosixAccountLists, k \in SeqsUpTo(Entries, MaxKeys) }

\* the target directory as main resolves it
TargetDir(arg) == IF arg = "" THEN PathJoin(ExpandUser, ".ssh") ELSE arg

\* the filesystems an invocation can start in: the directory may already
\* hold a key file of an earlier program, and holds an unrelated file (both
\* with mode 0o644)
InitialFiles(arg) ==
    LET d == Normalize(TargetDir(arg))
        other == d \o "/known_hosts"
        stale == d \o "/" \o KeyFileName(0)
    IN IF d \in ExistingDirs
       THEN { (other :> File("HOSTS", 420)),
              (other :> File("HOSTS", 420)) @@ (stale :> File("STALE", 420)) }
       ELSE { <<>> }

\* -------------------------------------------------------------------- Init
Init ==
    /\ directory_arg \in DirectoryArgs
    /\ ip_address \in IpAddresses
    /\ umask \in Umasks
    /\ fs_dirs = ExistingDirs
    /\ fs \in InitialFiles(directory_arg)
    /\ fs0 = fs
    /\ run = 1
    /\ pc = "start"
    /\ directory = ""
    /\ profile = <<>>
    /\ security_keys = None
    /\ username = None
    /\ key_files = <<>>
    /\ index = 0
    /\ buf = None
    /\ stdout = <<>>
    /\ error = "none"
    /\ lookups = 0
    /\ env_fault = FALSE
    /\ prev_keys = None

\* ------------------------------------------------------------------ actions
\* an uncaught exception ends the invocation
Raise(exc) ==
    /\ pc' = "error"
    /\ error' = exc

\* main: directory = directory or os.path.join(os.path.expanduser('~'), '.ssh')
Main_Directory ==
    /\ pc = "start"
    /\ directory' = TargetDir(directory_arg)
    /\ pc' = "build"
    /\ UNCHANGED <<inputs, fs_dirs, fs, run, profile, security_keys, username,
                   key_files, index, buf, stdout, error, lookups, env_fault,
                   fs0, prev_keys>>

\* main: oslogin = googleapiclient.discovery.build('oslogin', 'v1beta')
BuildErrors == {"DefaultCredentialsError"}

Main_Build ==
    /\ pc = "build"
    /\ \/ /\ pc' = "lookup"
          /\ UNCHANGED <<error, env_fault>>
       \/ /\ \E exc \in BuildErrors : Raise(exc)
          /\ env_fault' = TRUE
    /\ UNCHANGED <<inputs, fs_dirs, fs, run, locals, stdout, lookups, fs0,
                   prev_keys>>

\* main: profile = oslogin.users().getLoginProfile(...).execute()
LookupErrors == {"HttpError401", "HttpError404", "ServerNotFoundError"}

\* faulty variant: a failed request is caught and issued again
Main_GetLoginProfile_Retry ==
    /\ pc = "lookup"
    /\ lookups' = lookups + 1
    /\ \/ /\ profile' \in Profiles
          /\ pc' = "read"
          /\ UNCHANGED env_fault
       \/ /\ env_fault' = TRUE
          /\ UNCHANGED <<profile, pc>>
    /\ UNCHANGED <<inputs, fs_dirs, fs, run, directory, security_keys, username,
                   key_files, index, buf, stdout, error, fs0, prev_keys>>

Main_GetLoginProfile ==
    /\ pc = "lookup"
    /\ lookups' = lookups + 1
    /\ \/ /\ profile' \in Profiles
          /\ pc' = "read"
          /\ UNCHANGED <<error, env_fault>>
       \/ /\ \E exc \in LookupErrors : Raise(exc)
          /\ env_fault' = TRUE
          /\ UNCHANGED profile
    /\ UNCHANGED <<inputs, fs_dirs, fs, run, directory, security_keys, username,
                   key_files, index, buf, stdout, fs0, prev_keys>>

\* faulty variant: the username of the last POSIX account is used
Main_ReadProfile_LastAccount ==
    /\ pc = "read"
    /\ LET accounts == DictGet(profile, "posixAccounts")
       IN IF IsNone(accounts)
          THEN Raise("TypeError") /\ UNCHANGED <<security_keys, username>>
          ELSE IF Len(Value(accounts)) = 0
          THEN Raise("IndexError") /\ UNCHANGED <<security_keys, username>>
          ELSE /\ security_keys' = DictGet(profile, "securityKeys")
               /\ username' = DictGet(Value(accounts)[Len(Value(accounts))], "username")
               /\ pc' = "loop"
               /\ UNCHANGED error
    /\ UNCHANGED <<inputs, fs_dirs, fs, run, directory, profile, key_files,
                   index, buf, stdout, lookups, env_fault, fs0, prev_keys>>

\* main: security_keys = profile.get('securityKeys')
\*       username = profile.get('posixAccounts')[0].get('username')
Main_ReadProfile ==
    /\ pc = "read"
    /\ LET accounts == DictGet(profile, "posixAccounts")
       IN IF IsNone(accounts)
          THEN Raise("TypeError") /\ UNCHANGED <<security_keys, username>>
          ELSE IF Len(Value(accounts)) = 0
          THEN Raise("IndexError") /\ UNCHANGED <<security_keys, username>>
          ELSE /\ security_keys' = DictGet(profile, "securityKeys")
               /\ username' = DictGet(Value(accounts)[1], "username")
               /\ pc' = "loop"
               /\ UNCHANGED error
    /\ UNCHANGED <<inputs, fs_dirs, fs, run, directory, profile, key_files,
                   index, buf, stdout, lookups, env_fault, fs0, prev_keys>>

\* write_ssh_key_files: key_file = os.path.join(directory, 'google_sk_%s' % index)
KeyFile == PathJoin(directory, KeyFileName(index))

\* write_ssh_key_files: for index, key in enumerate(security_keys): ... return key_files
\* (index counts the entries the loop has finished)
Write_Loop ==
    /\ pc = "loop"
    /\ IF IsNone(security_keys)
       THEN Raise("TypeError")
       ELSE IF index < Len(Value(security_keys))
       THEN pc' = "open" /\ UNCHANGED error
       ELSE pc' = "format" /\ UNCHANGED error
    /\ UNCHANGED <<inputs, fs_dirs, fs, run, locals, stdout, lookups, env_fault,
                   fs0, prev_keys>>

\* faulty variant: open(key_file, 'x'), an existing file is an error
Write_Open_Exclusive ==
    /\ pc = "open"
    /\ IF ~CanOpen(fs_dirs, KeyFile)
       THEN Raise("FileNotFoundError") /\ UNCHANGED <<fs, buf, env_fault>>
       ELSE IF Normalize(KeyFile) \in DOMAIN fs
       THEN Raise("FileExistsError") /\ UNCHANGED <<fs, buf, env_fault>>
       ELSE \/ /\ fs' = OpenForWriting(fs, KeyFile, umask)
               /\ buf' = Some("")
               /\ pc' = "write"
               /\ UNCHANGED <<error, env_fault>>
            \/ /\ Raise("PermissionError")
               /\ env_fault' = TRUE
               /\ UNCHANGED <<fs, buf>>
    /\ UNCHANGED <<inputs, fs_dirs, run, directory, profile, security_keys,
                   username, key_files, index, stdout, lookups, fs0, prev_keys>>

\* write_ssh_key_files: with open(key_file, 'w') as f
Write_Open ==
    /\ pc = "open"
    /\ IF ~CanOpen(fs_dirs, KeyFile)
       THEN Raise("FileNotFoundError") /\ UNCHANGED <<fs, buf, env_fault>>
       ELSE \/ /\ fs' = OpenForWriting(fs, KeyFile, umask)
               /\ buf' = Some("")
               /\ pc' = "write"
               /\ UNCHANGED <<error, env_fault>>
            \/ /\ Raise("PermissionError")
               /\ env_fault' = TRUE
               /\ UNCHANGED <<fs, buf>>
    /\ UNCHANGED <<inputs, fs_dirs, run, directory, profile, security_keys,
                   username, key_files, index, stdout, lookups, fs0, prev_keys>>

\* faulty variant: a failed write restores the files of the earlier entries
Write_Write_Rollback ==
    /\ pc = "write"
    /\ LET text == DictGet(Value(security_keys)[index + 1], "privateKey")
       IN IF IsNone(text)
          THEN Raise("TypeError") /\ buf' = None /\ fs' = fs0
          ELSE /\ buf' = Some(Value(buf) \o Value(text))
               /\ pc' = "chmod"
               /\ UNCHANGED <<error, fs>>
    /\ UNCHANGED <<inputs, fs_dirs, run, directory, profile, security_keys,
                   username, key_files, index, stdout, lookups, env_fault, fs0,
                   prev_keys>>

\* write_ssh_key_files: f.write(key.get('privateKey')); the text stays in the
\* buffer of f.  write(None) raises TypeError and the with statement closes f.
Write_Write ==
    /\ pc = "write"
    /\ LET text == DictGet(Value(security_keys)[index + 1], "privateKey")
       IN IF IsNone(text)
          THEN Raise("TypeError") /\ buf' = None
          ELSE /\ buf' = Some(Value(buf) \o Value(text))
               /\ pc' = "chmod"
               /\ UNCHANGED error
    /\ UNCHANGED <<inputs, fs_dirs, fs, run, directory, profile, security_keys,
                   username, key_files, index, stdout, lookups, env_fault, fs0,
                   prev_keys>>

\* write_ssh_key_files: os.chmod(key_file, 0o600).  When chmod fails the with
\* statement closes f, which flushes the buffer (the flush may fail as well).
Write_Chmod ==
    /\ pc = "chmod"
    /\ \/ /\ fs' = Chmod(fs, KeyFile, KeyFileMode)
          /\ pc' = "append"
          /\ UNCHANGED <<error, env_fault, buf>>
       \/ /\ Raise("PermissionError")
          /\ env_fault' = TRUE
          /\ buf' = None
          /\ fs' \in {fs, Flush(fs, KeyFile, Value(buf))}
    /\ UNCHANGED <<inputs, fs_dirs, run, directory, profile, security_keys,
                   username, key_files, index, stdout, lookups, fs0, prev_keys>>

\* write_ssh_key_files: key_files.append(key_file)
Write_Append ==
    /\ pc = "append"
    /\ key_files' = Append(key_files, KeyFile)
    /\ pc' = "close"
    /\ UNCHANGED <<inputs, fs_dirs, fs, run, directory, profile, security_keys,
                   username, index, buf, stdout, error, lookups, env_fault, fs0,
                   prev_keys>>

\* write_ssh_key_files: the end of the with block closes f, which writes the
\* buffered text to the file
Write_Close ==
    /\ pc = "close"
    /\ buf' = None
    /\ \/ /\ fs' = Flush(fs, KeyFile, Value(buf))
          /\ index' = index + 1
          /\ pc' = "loop"
          /\ UNCHANGED <<error, env_fault>>
       \/ /\ Raise("OSError")
          /\ env_fault' = TRUE
          /\ UNCHANGED <<fs, index>>
    /\ UNCHANGED <<inputs, fs_dirs, run, directory, profile, security_keys,
                   username, key_files, stdout, lookups, fs0, prev_keys>>

\* '{}'.format(x) of an optional string
FormatStr(o) == IF IsNone(o) THEN "None" ELSE Value(o)

\* ssh_command: parameters = ' '.join(['-i ' + f for f in key_files])
Parameters(files) == StrJoin(" ", [i \in 1..Len(files) |-> "-i " \o files[i]])

\* faulty variant: no second space when there is no key file
SshCommandLine_Stripped(files, user, ip) ==
    IF Len(files) = 0
    THEN "ssh " \o FormatStr(user) \o "@" \o ip
    ELSE "ssh " \o Parameters(files) \o " " \o FormatStr(user) \o "@" \o ip

\* ssh_command: 'ssh {parameters} {username}@{ip_address}'.format(...)
SshCommandLine(files, user, ip) ==
    "ssh " \o Parameters(files) \o " " \o FormatStr(user) \o "@" \o ip

\* ssh_command, called by main with the paths write_ssh_key_files returned
Ssh_Command ==
    /\ pc = "format"
    /\ stdout' = Append(stdout, SshCommandLine(key_files, username, ip_address))
    /\ pc' = "done"
    /\ UNCHANGED <<inputs, fs_dirs, fs, run, locals, error, lookups, env_fault,
                   fs0, prev_keys>>

\* the script is invoked again, on the filesystem the last invocation left
Main_Again ==
    /\ pc \in {"done", "error"}
    /\ run < MaxRuns
    /\ run' = run + 1
    /\ pc' = "start"
    /\ directory' = ""
    /\ profile' = <<>>
    /\ security_keys' = None
    /\ username' = None
    /\ key_files' = <<>>
    /\ index' = 0
    /\ buf' = None
    /\ stdout' = <<>>
    /\ error' = "none"
    /\ lookups' = 0
    /\ env_fault' = FALSE
    /\ fs0' = fs
    /\ prev_keys' = IF pc = "done" THEN security_keys ELSE None
    /\ UNCHANGED <<inputs, fs_dirs, fs>>

Next ==
    \/ Main_Directory
    \/ Main_Build
    \/ Main_GetLoginProfile
    \/ Main_ReadProfile
    \/ Write_Loop
    \/ Write_Open
    \/ Write_Write
    \/ Write_Chmod
    \/ Write_Append
    \/ Write_Close
    \/ Ssh_Command
    \/ Main_Again

Spec == Init /\ [][Next]_vars

\* ------------------------------------------- ssh_command on its own inputs
FmtPaths == {"/a", "/b", "/c d"}
FmtUsers == {"alice", "bob"}

InitFmt ==
    /\ directory_arg = ""
    /\ ip_address \in IpAddresses
    /\ umask = 18
    /\ fs_dirs = ExistingDirs
    /\ fs = <<>>
    /\ fs0 = fs
    /\ run = 1
    /\ pc = "format"
    /\ directory = ""
    /\ profile = <<>>
    /\ security_keys = None
    /\ username \in {Some(u) : u \in FmtUsers}
    /\ key_files \in SeqsUpTo(FmtPaths, MaxPaths)
    /\ index = 0
    /\ buf = None
    /\ stdout = <<>>
    /\ error = "none"
    /\ lookups = 0
    /\ env_fault = FALSE
    /\ prev_keys = None

NextFmt == Ssh_Command

SpecFmt == InitFmt /\ [][NextFmt]_vars

\* -------------------------------------------------------------- properties
\* the entries write_ssh_key_files was called with
Keys == Value(security_keys)
NumKeys == Len(Keys)
PrivateKeyOf(keys, i) == keys[i + 1].privateKey

\* the file google_sk_<i> of the target directory, <directory>/google_sk_<i>,
\* under the name the filesystem knows it by
ResolvedDirs == [d \in {TargetDir(a) : a \in DirectoryArgs} |-> Normalize(d)]
ResolvedDir(d) == IF d \in DOMAIN ResolvedDirs THEN ResolvedDirs[d] ELSE Normalize(d)

KeyPath(i) ==
    LET d == ResolvedDir(directory)
    IN IF d = "/" THEN "/google_sk_" \o ToString(i)
       ELSE d \o "/google_sk_" \o ToString(i)
KeyPaths(n) == {KeyPath(i) : i \in 0..(n - 1)}

\* write_ssh_key_files has returned to main
Returned == pc \in {"format", "done"}

\* the command line for paths, user and host, built path by path
RECURSIVE IdentityFlags(_)
IdentityFlags(paths) ==
    IF paths = <<>> THEN ""
    ELSE " -i " \o Head(paths) \o IdentityFlags(Tail(paths))

ExpectedCommand(paths, user, host) ==
    IF paths = <<>>
    THEN "ssh  " \o user \o "@" \o host
    ELSE "ssh" \o IdentityFlags(paths) \o " " \o user \o "@" \o host

\* C1: when write_ssh_key_files has returned for N entries, the directory
\* holds the N files google_sk_0 .. google_sk_(N-1), file i holds exactly the
\* privateKey of entry i with mode 0600, and no other file was created or
\* changed (for N = 0 the filesystem is as it was).
C1_WriterPostcondition ==
    Returned =>
        /\ Cardinality(KeyPaths(NumKeys)) = NumKeys
        /\ DOMAIN fs = DOMAIN fs0 \cup KeyPaths(NumKeys)
        /\ \A i \in 0..(NumKeys - 1) :
              fs[KeyPath(i)] = File(PrivateKeyOf(Keys, i), KeyFileMode)
        /\ \A q \in DOMAIN fs0 \ KeyPaths(NumKeys) : fs[q] = fs0[q]
        /\ NumKeys = 0 => fs = fs0

C1_Witness ==
    /\ pc = "format"
    /\ NumKeys = 2
    /\ PrivateKeyOf(Keys, 0) = "KEY-B"
    /\ PrivateKeyOf(Keys, 1) = "KEY-A"
    /\ KeyPath(0) \in DOMAIN fs0
    /\ KeyPath(1) \notin DOMAIN fs0
    /\ fs[KeyPath(0)].content = "KEY-B"

\* C2: ssh_command prints exactly one line, 'ssh ' followed by '-i <path>' for
\* every path in order joined by single spaces, a space, and user@host, all
\* verbatim; with no path the line is 'ssh  user@host' with two spaces.
C2_CommandFormat ==
    pc = "done" =>
        /\ stdout = <<ExpectedCommand(key_files, Value(username), ip_address)>>
        /\ (key_files = <<"/a", "/b">> /\ username = Some("alice") /\ ip_address = "1.2.3.4")
              => stdout = <<"ssh -i /a -i /b alice@1.2.3.4">>
        /\ (key_files = <<>> /\ username = Some("bob") /\ ip_address = "5.6.7.8")
              => stdout = <<"ssh  bob@5.6.7.8">>
        /\ (key_files = <<"/c d">> /\ username = Some("bob") /\ ip_address = "1.2.3.4")
              => stdout = <<"ssh -i /c d bob@1.2.3.4">>

C2_Witness ==
    /\ pc = "done"
    /\ key_files = <<"/a", "/b">>
    /\ username = Some("alice")
    /\ ip_address = "1.2.3.4"
    /\ stdout = <<"ssh -i /a -i /b alice@1.2.3.4">>

\* C3: when write_ssh_key_files has returned for N entries, key_files holds N
\* paths, the i-th (from 0) naming <directory>/google_sk_<i>, in the order of
\* the entries, and the file of every returned path holds its entry's key and
\* has mode 0600.
C3_ReturnedPaths ==
    Returned =>
        /\ Len(key_files) = NumKeys
        /\ \A i \in 0..(NumKeys - 1) :
              LET file == Normalize(key_files[i + 1])
              IN /\ file = KeyPath(i)
                 /\ ~EndsWith(directory, "/") =>
                        key_files[i + 1] = directory \o "/google_sk_" \o ToString(i)
                 /\ file \in DOMAIN fs
                 /\ fs[file] = File(PrivateKeyOf(Keys, i), KeyFileMode)

C3_Witness ==
    /\ pc = "format"
    /\ directory = "/tmp/"
    /\ key_files = <<"/tmp/google_sk_0", "/tmp/google_sk_1">>
    /\ fs["/tmp/google_sk_1"].mode = KeyFileMode

\* C4: an invocation issues the profile lookup at most once; when the lookup
\* fails the invocation has ended with that error after a single request,
\* no file was created or changed and nothing was printed.
C4_LookupFailureEndsRun ==
    /\ lookups <= 1
    /\ pc \in {"start", "build", "lookup"} => lookups = 0
    /\ (env_fault /\ profile = <<>> /\ pc \notin {"start", "build", "lookup"}) =>
          /\ pc = "error"
          /\ error \in BuildErrors \cup LookupErrors
          /\ error \in LookupErrors => lookups = 1
          /\ fs = fs0
          /\ fs_dirs = ExistingDirs
          /\ key_files = <<>>
          /\ stdout = <<>>

C4_Witness ==
    /\ pc = "error"
    /\ error = "HttpError404"
    /\ lookups = 1
    /\ run = 2
    /\ fs = fs0
    /\ stdout = <<>>

\* the target directory is missing and the profile lists at least one entry
MissingDirectoryCase ==
    /\ ~IsNone(security_keys)
    /\ NumKeys > 0
    /\ ResolvedDir(directory) \notin ExistingDirs

\* C5: with a missing target directory and at least one entry,
\* write_ssh_key_files gets no further than opening the first file, where it
\* fails with FileNotFoundError: no directory and no file is created, no path
\* is returned and nothing is printed.
C5_MissingDirectoryFails ==
    MissingDirectoryCase =>
        /\ pc \in {"loop", "open", "error"}
        /\ pc = "error" => error = "FileNotFoundError"
        /\ index = 0
        /\ fs_dirs = ExistingDirs
        /\ fs = fs0
        /\ key_files = <<>>
        /\ buf = None
        /\ stdout = <<>>

C5_Witness ==
    /\ MissingDirectoryCase
    /\ pc = "error"
    /\ error = "FileNotFoundError"
    /\ directory = "/nodir"
    /\ NumKeys = 2

\* the invocation failed in the loop of write_ssh_key_files, on entry `index`
FailedOnEntry == pc = "error" /\ ~IsNone(security_keys)

\* C6: when write_ssh_key_files fails on entry k the invocation has ended in
\* an error: the files of entries 0..k-1 hold their full key with mode 0600,
\* no file of a later index was created or changed, nothing was printed.
C6_NoRollback ==
    FailedOnEntry =>
        /\ index < NumKeys
        /\ \A i \in 0..(index - 1) :
              /\ KeyPath(i) \in DOMAIN fs
              /\ fs[KeyPath(i)] = File(PrivateKeyOf(Keys, i), KeyFileMode)
        /\ \A i \in (index + 1)..MaxKeys :
              /\ KeyPath(i) \in DOMAIN fs <=> KeyPath(i) \in DOMAIN fs0
              /\ KeyPath(i) \in DOMAIN fs => fs[KeyPath(i)] = fs0[KeyPath(i)]
        /\ stdout = <<>>

C6_Witness ==
    /\ FailedOnEntry
    /\ error = "TypeError"
    /\ index = 1
    /\ "privateKey" \notin DOMAIN Keys[2]
    /\ KeyPath(0) \notin DOMAIN fs0
    /\ fs[KeyPath(0)] = File("KEY-A", KeyFileMode)

\* every entry carries a privateKey
AllHavePrivateKey(keys) == \A i \in 1..Len(keys) : "privateKey" \in DOMAIN keys[i]

\* the invocation follows one that returned from write_ssh_key_files and printed
SecondRun == run >= 2 /\ ~IsNone(prev_keys)

\* C7: an invocation that follows a successful one on the same directory
\* does not fail because key files exist: it fails only on an environment
\* fault or an unusable profile.  When it has written its N2 entries, file i
\* holds its entry i with mode 0600 for i < N2, and for N2 <= i < N1 the file
\* still holds entry i of the earlier invocation, unchanged.
C7_SecondRunOverwrites ==
    SecondRun =>
        /\ (pc = "error" /\ ~env_fault /\ ~IsNone(security_keys)) =>
              ~AllHavePrivateKey(Keys) \/ ResolvedDir(directory) \notin ExistingDirs
        /\ Returned =>
              /\ \A i \in 0..(NumKeys - 1) :
                    /\ KeyPath(i) \in DOMAIN fs
                    /\ fs[KeyPath(i)] = File(PrivateKeyOf(Keys, i), KeyFileMode)
              /\ \A i \in NumKeys..(Len(Value(prev_keys)) - 1) :
                    /\ KeyPath(i) \in DOMAIN fs
                    /\ fs[KeyPath(i)] = File(PrivateKeyOf(Value(prev_keys), i), KeyFileMode)
                    /\ fs[KeyPath(i)] = fs0[KeyPath(i)]

C7_Witness ==
    /\ SecondRun
    /\ pc = "done"
    /\ Value(prev_keys) = <<[privateKey |-> "KEY-A"], [privateKey |-> "KEY-B"]>>
    /\ Keys = <<[privateKey |-> "KEY-B"]>>
    /\ fs[KeyPath(0)] = File("KEY-B", KeyFileMode)
    /\ fs[KeyPath(1)] = File("KEY-B", KeyFileMode)

\* the files of the paths write_ssh_key_files returned are complete
AllKeyFilesWritten ==
    /\ Len(key_files) = NumKeys
    /\ \A i \in 1..Len(key_files) :
          LET file == Normalize(key_files[i])
          IN /\ file \in DOMAIN fs
             /\ fs[file] = File(PrivateKeyOf(Keys, i - 1), KeyFileMode)

\* C8: main runs lookup, writer, formatter in that order: no file is created
\* or changed before the lookup has returned a profile, nothing is printed
\* unless every key file is written with mode 0600, and an invocation that
\* completes has printed exactly one line, the command for the returned
\* paths, the username of the first POSIX account and the given address.
C8_LinearFlow ==
    /\ profile = <<>> => fs = fs0 /\ key_files = <<>> /\ stdout = <<>>
    /\ pc \in {"start", "build", "lookup", "read"} => fs = fs0 /\ stdout = <<>>
    /\ stdout # <<>> => pc = "done" /\ AllKeyFilesWritten
    /\ pc = "done" =>
          /\ lookups = 1
          /\ AllKeyFilesWritten
          /\ stdout = <<ExpectedCommand(key_files, profile.posixAccounts[1].username,
                                         ip_address)>>
    /\ pc # "done" => stdout = <<>>

C8_Witness ==
    /\ pc = "done"
    /\ Len(profile.posixAccounts) = 2
    /\ ip_address = "5.6.7.8"
    /\ stdout = <<"ssh -i /home/u/.ssh/google_sk_0 -i /home/u/.ssh/google_sk_1 bob@5.6.7.8">>

\* the lookup returned a profile with no security key and a POSIX account
ZeroKeysProfile ==
    /\ profile # <<>>
    /\ "posixAccounts" \in DOMAIN profile
    /\ Len(profile.posixAccounts) >= 1
    /\ "securityKeys" \in DOMAIN profile => profile.securityKeys = <<>>

\* C9: with a profile of zero security keys (the field empty or left out) and
\* a POSIX account, main does not fail, writes no file, and completes having
\* printed 'ssh  <username>@<ip_address>'.
C9_ZeroKeysCompletes ==
    ZeroKeysProfile =>
        /\ pc # "error"
        /\ fs = fs0
        /\ pc = "done" =>
              stdout = <<"ssh  " \o profile.posixAccounts[1].username \o "@" \o ip_address>>

\* the key files the invocation has created or written so far
TouchedKeyFiles ==
    {q \in DOMAIN fs : /\ \E i \in 0..MaxKeys : q = KeyPath(i)
                       /\ (q \notin DOMAIN fs0 \/ fs[q] # fs0[q])}

\* C10: in every state, every key file the invocation has created or written
\* has mode 0600.
C10_AlwaysOwnerOnly ==
    \A q \in TouchedKeyFiles : fs[q].mode = KeyFileMode

====
